---- MODULE Spec2Model ----
(***************************************************************************)
(* Model of spotify_functions.py: the dataset flow (load_spotify_dataset,  *)
(* clean_data, define_hit_songs) and the playlist search of the catalog    *)
(* flow (search_playlist).  A DataFrame is a record of its column labels   *)
(* (in order), its row labels (the pandas index, in order) and its rows;   *)
(* the pandas calls the code makes are operators of the same name.         *)
(***************************************************************************)
EXTENDS Integers, Sequences, FiniteSets, TLC

VARIABLES disk, df, op, file_path, arg, threshold, ret, retIsArg, raised,
          printed, limit, results, found

vars == <<disk, df, op, file_path, arg, threshold, ret, retIsArg, raised,
          printed, limit, results, found>>

(***************************************************************************)
(* Bounds of the model and the values the inputs are drawn from.           *)
(***************************************************************************)
MaxRows == 2

MaxItems == 4

DefaultThreshold == 87

Thresholds == {DefaultThreshold, DefaultThreshold + 1}

Popularities == {DefaultThreshold, DefaultThreshold + 1}

TrackIds == {"a", "b"}

Paths == {"dataset.csv", "missing.csv"}

Playlists == {[id |-> "x", name |-> "Y"], [id |-> "z", name |-> "W"]}

(***************************************************************************)
(* Python's None and optional values: None is the empty sequence, a value  *)
(* v that is present is <<v>>.                                             *)
(***************************************************************************)
None == << >>

Some(v) == <<v>>

Range(s) == {s[i] : i \in DOMAIN s}

(***************************************************************************)
(* Missing cells.  A numeric column holds NaN for a missing cell, a string *)
(* column holds the missing-string marker.                                 *)
(***************************************************************************)
NaN == -1

NoneStr == "<NA>"

StringColumns == {"track_id"}

FileColumns == <<"index", "track_id", "popularity">>

CellValues(c) ==
    IF c = "track_id" THEN TrackIds \cup {NoneStr}
    ELSE IF c = "popularity" THEN Popularities \cup {NaN}
    ELSE IF c = "index" THEN {0, NaN}
    ELSE {0, 1}

isna(c, v) == IF c \in StringColumns THEN v = NoneStr ELSE v = NaN

(***************************************************************************)
(* The tables a CSV file can hold: any selection of the file columns, up   *)
(* to MaxRows rows, every cell a value of its column or missing.  The row  *)
(* labels read_csv gives are 0 .. n-1.                                     *)
(***************************************************************************)
RECURSIVE RowsOver(_)
RowsOver(cols) ==
    IF cols = << >> THEN {<< >>}
    ELSE {(Head(cols) :> v) @@ r : v \in CellValues(Head(cols)), r \in RowsOver(Tail(cols))}

RangeIndex(n) == [i \in 1..n |-> i - 1]

DataFrame(cols, rows) ==
    [columns |-> cols, index |-> RangeIndex(Len(rows)), rows |-> rows]

ColumnSelections ==
    {SelectSeq(FileColumns, LAMBDA c : c \in S) : S \in SUBSET Range(FileColumns)}

CsvTables ==
    UNION {UNION {{DataFrame(cols, rows) : rows \in [1..n -> RowsOver(cols)]}
                  : n \in 0..(IF cols = << >> THEN 0 ELSE MaxRows)}
           : cols \in ColumnSelections}

(***************************************************************************)
(* pandas operations used by the code.                                     *)
(***************************************************************************)
empty(t) == Len(t.index) = 0 \/ Len(t.columns) = 0

\* the rows at the positions in keep, in their order, with their labels
take(t, keep) ==
    LET pos == SelectSeq([i \in 1..Len(t.index) |-> i], LAMBDA i : i \in keep)
    IN  [columns |-> t.columns,
         index   |-> [k \in 1..Len(pos) |-> t.index[pos[k]]],
         rows    |-> [k \in 1..Len(pos) |-> t.rows[pos[k]]]]

\* dropna(how="all"): a row goes only when every cell of it is missing
dropna_how_all(t) ==
    take(t, {i \in 1..Len(t.index) :
                t.columns = << >> \/ \E c \in Range(t.columns) : ~isna(c, t.rows[i][c])})

RowHasNa(t, i) == \E c \in Range(t.columns) : isna(c, t.rows[i][c])

dropna(t) == take(t, {i \in 1..Len(t.index) : ~RowHasNa(t, i)})

drop(t, c) ==
    LET cols == SelectSeq(t.columns, LAMBDA x : x # c)
    IN  [columns |-> cols,
         index   |-> t.index,
         rows    |-> [i \in 1..Len(t.rows) |-> [x \in Range(cols) |-> t.rows[i][x]]]]

\* DataFrame.duplicated(subset=[c]) returns an empty Series for an empty
\* frame before it looks at the subset; otherwise a missing label is a KeyError
duplicatedRaises(t, c) == ~empty(t) /\ c \notin Range(t.columns)

duplicated(t, c) ==
    IF empty(t) THEN << >>
    ELSE [i \in 1..Len(t.index) |-> \E j \in 1..(i - 1) : t.rows[j][c] = t.rows[i][c]]

sum(bools) == Cardinality({i \in DOMAIN bools : bools[i]})

\* drop_duplicates(keep="last")
drop_duplicates_keep_last(t, c) ==
    IF empty(t) THEN t
    ELSE take(t, {i \in 1..Len(t.index) :
                     ~\E j \in (i + 1)..Len(t.index) : t.rows[j][c] = t.rows[i][c]})

drop_duplicates(t, c) ==
    IF empty(t) THEN t
    ELSE take(t, {i \in 1..Len(t.index) : ~duplicated(t, c)[i]})

(***************************************************************************)
(* load_spotify_dataset.  read_csv raises FileNotFoundError for a path     *)
(* with no file behind it and EmptyDataError for a file with no columns to *)
(* parse; the function catches the first alone.                            *)
(***************************************************************************)
read_csv(fs, path) ==
    IF fs[path] = None THEN [raised |-> "FileNotFoundError", value |-> None]
    ELSE IF Len(fs[path][1].columns) = 0 THEN [raised |-> "EmptyDataError", value |-> None]
    ELSE [raised |-> "", value |-> fs[path]]

\* no except clause: every exception of read_csv reaches the caller
CaughtNothing(exc) == FALSE

Caught(exc) == exc = "FileNotFoundError"

load_spotify_dataset(fs, path) ==
    LET r == read_csv(fs, path)
    IN  IF r.raised = "" THEN
            [raised |-> "", ret |-> r.value, printed |-> <<"loaded successfully">>]
        ELSE IF Caught(r.raised) THEN
            [raised |-> "", ret |-> None, printed |-> <<"Error: file was not found">>]
        ELSE
            [raised |-> r.raised, ret |-> None, printed |-> << >>]

(***************************************************************************)
(* clean_data, pass by pass.                                               *)
(***************************************************************************)
\* the 'index' column is left in place
KeepIndexColumn(t) == t

DropIndexColumn(t) == IF "index" \in Range(t.columns) THEN drop(t, "index") ELSE t

\* the duplicates are counted and reported, the frame is returned as it was
CountDuplicateTracksOnly(t) == t

DropDuplicateTracks(t) ==
    IF sum(duplicated(t, "track_id")) > 0 THEN drop_duplicates(t, "track_id") ELSE t

clean_data(t) ==
    LET afterNa    == dropna(t)
        afterIndex == DropIndexColumn(afterNa)
        head       == <<"Original shape", "Shape after dropping NAs">>
                      \o (IF "index" \in Range(afterNa.columns) THEN <<"Dropped the 'index' column.">> ELSE << >>)
    IN  IF duplicatedRaises(afterIndex, "track_id") THEN
            [raised |-> "KeyError", ret |-> None, printed |-> head]
        ELSE
            LET final == DropDuplicateTracks(afterIndex)
            IN  [raised  |-> "",
                 ret     |-> Some(final),
                 printed |-> head
                             \o (IF sum(duplicated(afterIndex, "track_id")) > 0
                                 THEN <<"Found duplicate tracks. Removing them.">> ELSE << >>)
                             \o <<"Final shape after cleaning">>]

(***************************************************************************)
(* define_hit_songs.  A comparison with NaN is False; astype(int) maps     *)
(* False to 0 and True to 1; df[c] = values replaces column c where it is  *)
(* and appends it when the frame has none.                                 *)
(***************************************************************************)
\* popularity >= threshold
ge(v, k) == v # NaN /\ v >= k

gt(v, k) == v # NaN /\ v > k

astype_int(b) == IF b THEN 1 ELSE 0

\* the new column is appended even when the frame has one of that name
setitem_append(t, c, values) ==
    [columns |-> Append(t.columns, c),
     index   |-> t.index,
     rows    |-> [i \in 1..Len(t.rows) |->
                     [x \in Range(t.columns) \cup {c} |->
                         IF x = c THEN values[i] ELSE t.rows[i][x]]]]

\* the column is assigned to a frame whose row labels were reset
setitem_reset_index(t, c, values) ==
    [columns |-> IF c \in Range(t.columns) THEN t.columns ELSE Append(t.columns, c),
     index   |-> RangeIndex(Len(t.index)),
     rows    |-> [i \in 1..Len(t.rows) |->
                     [x \in Range(t.columns) \cup {c} |->
                         IF x = c THEN values[i] ELSE t.rows[i][x]]]]

setitem(t, c, values) ==
    [columns |-> IF c \in Range(t.columns) THEN t.columns ELSE Append(t.columns, c),
     index   |-> t.index,
     rows    |-> [i \in 1..Len(t.rows) |->
                     [x \in Range(t.columns) \cup {c} |->
                         IF x = c THEN values[i] ELSE t.rows[i][x]]]]

define_hit_songs(t, k) ==
    IF "popularity" \notin Range(t.columns) THEN
        [raised |-> "KeyError", ret |-> None, frame |-> t, printed |-> << >>]
    ELSE
        LET hits == [i \in 1..Len(t.rows) |-> astype_int(gt(t.rows[i]["popularity"], k))]
            new  == setitem(t, "is_hit", hits)
        IN  [raised  |-> "",
             ret     |-> Some(new),
             frame   |-> new,
             printed |-> <<"Created 'is_hit' column", "Distribution of Hits (1) vs. Non-Hits (0)">>]

(***************************************************************************)
(* search_playlist.  A search response is None or the list of its items,   *)
(* each item None or a playlist.                                           *)
(***************************************************************************)
\* the loop takes the first item without testing it: a null item yields nothing
FirstItem(items) == IF items = << >> THEN None ELSE Head(items)

RECURSIVE FirstValid(_)
FirstValid(items) ==
    IF items = << >> THEN None
    ELSE IF Head(items) # None THEN Head(items)
    ELSE FirstValid(Tail(items))

search_playlist(response) ==
    LET hit == IF response # None /\ response[1] # << >> THEN FirstValid(response[1]) ELSE None
    IN  IF hit # None THEN
            [ret |-> <<Some(hit[1].id), Some(hit[1].name)>>, printed |-> <<"Success! Found playlist">>]
        ELSE
            [ret |-> <<None, None>>, printed |-> <<"Could not find any valid playlists">>]

SearchResponses(lim) ==
    {None} \cup {Some(items) : items \in
        UNION {[1..n -> {None} \cup {Some(p) : p \in Playlists}] : n \in 0..lim}}

(***************************************************************************)
(* The state machine.  The caller holds one table, df, and hands it to the *)
(* stages of the dataset flow, keeping each stage's result.                *)
(***************************************************************************)
Init ==
    /\ disk \in {[p \in Paths |-> IF p = "dataset.csv" THEN Some(t) ELSE None] : t \in CsvTables}
    /\ df = None
    /\ op = "init"
    /\ file_path = ""
    /\ arg = None
    /\ threshold = DefaultThreshold
    /\ ret = None
    /\ retIsArg = FALSE
    /\ raised = ""
    /\ printed = << >>
    /\ limit = 0
    /\ results = None
    /\ found = <<None, None>>

LoadSpotifyDataset(path) ==
    LET r == load_spotify_dataset(disk, path)
    IN  /\ op' = "load_spotify_dataset"
        /\ file_path' = path
        /\ arg' = None
        /\ ret' = r.ret
        /\ retIsArg' = FALSE
        /\ raised' = r.raised
        /\ printed' = r.printed
        /\ df' = IF r.raised = "" THEN r.ret ELSE df
        /\ UNCHANGED <<disk, threshold, limit, results, found>>

CleanData ==
    /\ op' = "clean_data"
    /\ arg' = df
    /\ retIsArg' = FALSE
    /\ IF df = None THEN
           /\ raised' = "AttributeError"
           /\ ret' = None
           /\ printed' = << >>
           /\ df' = df
       ELSE
           LET r == clean_data(df[1])
           IN  /\ raised' = r.raised
               /\ ret' = r.ret
               /\ printed' = r.printed
               /\ df' = IF r.raised = "" THEN r.ret ELSE df
    /\ UNCHANGED <<disk, file_path, threshold, limit, results, found>>

DefineHitSongs(k) ==
    /\ op' = "define_hit_songs"
    /\ arg' = df
    /\ threshold' = k
    /\ IF df = None THEN
           /\ raised' = "TypeError"
           /\ ret' = None
           /\ retIsArg' = FALSE
           /\ printed' = << >>
           /\ df' = df
       ELSE
           LET r == define_hit_songs(df[1], k)
           IN  /\ raised' = r.raised
               /\ ret' = r.ret
               /\ retIsArg' = (r.raised = "")
               /\ printed' = r.printed
               /\ df' = Some(r.frame)
    /\ UNCHANGED <<disk, file_path, limit, results, found>>

Next ==
    \/ \E path \in Paths : LoadSpotifyDataset(path)
    \/ CleanData
    \/ \E k \in Thresholds : DefineHitSongs(k)

Spec == Init /\ [][Next]_vars

InitCatalog ==
    /\ disk = [p \in Paths |-> None]
    /\ df = None
    /\ op = "init"
    /\ file_path = ""
    /\ arg = None
    /\ threshold = DefaultThreshold
    /\ ret = None
    /\ retIsArg = FALSE
    /\ raised = ""
    /\ printed = << >>
    /\ limit = 0
    /\ results = None
    /\ found = <<None, None>>

SearchPlaylist(lim, response) ==
    LET r == search_playlist(response)
    IN  /\ op' = "search_playlist"
        /\ limit' = lim
        /\ results' = response
        /\ found' = r.ret
        /\ printed' = r.printed
        /\ UNCHANGED <<disk, df, file_path, arg, threshold, ret, retIsArg, raised>>

NextCatalog ==
    \E lim \in 1..MaxItems : \E response \in SearchResponses(lim) : SearchPlaylist(lim, response)

SpecCatalog == InitCatalog /\ [][NextCatalog]_vars

(***************************************************************************)
(* The claims.  T is the table the last call was given, R the table it     *)
(* returned.                                                               *)
(***************************************************************************)
T == arg[1]

R == ret[1]

Positions(t) == 1..Len(t.index)

Complete(t, i) == \A c \in Range(t.columns) : ~isna(c, t.rows[i][c])

\* row i of r is row j of t: the same label, and t's cells in every column of r
SameRow(r, i, t, j) ==
    /\ r.index[i] = t.index[j]
    /\ r.rows[i] = [c \in Range(r.columns) |-> t.rows[j][c]]

Min(S) == CHOOSE m \in S : \A n \in S : m <= n

Cleaned ==
    /\ op = "clean_data"
    /\ arg # None
    /\ "track_id" \in Range(T.columns)
    /\ raised = ""

\* C1, as stated: after clean_data on a table with a track_id column, every
\* row of the result is the first row of the input, in the input's original
\* order, that carries its track_id.
C1_FirstInOriginalOrder ==
    Cleaned =>
        \A i \in Positions(R) :
            LET same == {j \in Positions(T) : T.rows[j]["track_id"] = R.rows[i]["track_id"]}
            IN  same # {} /\ SameRow(R, i, T, Min(same))

\* C1, amended: after clean_data on a table with a track_id column, every
\* row of the result is the first row, in the input's order, among the input
\* rows that have no missing value and carry its track_id.
C1_FirstAmongCompleteRows ==
    Cleaned =>
        \A i \in Positions(R) :
            LET same == {j \in Positions(T) :
                            Complete(T, j) /\ T.rows[j]["track_id"] = R.rows[i]["track_id"]}
            IN  same # {} /\ SameRow(R, i, T, Min(same))

\* clean_data returned a table from an input with two complete rows of one track_id
C1_Witness ==
    /\ Cleaned
    /\ Len(R.rows) > 0
    /\ \E i, j \in Positions(T) :
           /\ i < j
           /\ Complete(T, i) /\ Complete(T, j)
           /\ T.rows[i]["track_id"] = T.rows[j]["track_id"]
           /\ T.rows[i] # T.rows[j]

\* C2: after clean_data on a table with a track_id column, no two rows of
\* the result share a track_id.
C2_UniqueTrackIds ==
    Cleaned =>
        \A i, j \in Positions(R) : i # j => R.rows[i]["track_id"] # R.rows[j]["track_id"]

\* clean_data found two complete rows of one track_id and returned one of them
C2_Witness ==
    /\ Cleaned
    /\ Len(R.rows) >= 1
    /\ Len(R.rows) < Len(dropna(T).rows)

\* C3: after clean_data on a table with a track_id column, no cell of the
\* result is missing and no input row with a missing cell is in the result.
C3_NoMissingValues ==
    Cleaned =>
        /\ \A i \in Positions(R) : \A c \in Range(R.columns) : ~isna(c, R.rows[i][c])
        /\ \A j \in Positions(T) : ~Complete(T, j) => T.index[j] \notin Range(R.index)

\* clean_data removed a row with a missing cell and kept a complete one
C3_Witness ==
    /\ Cleaned
    /\ Len(R.rows) > 0
    /\ \E j \in Positions(T) : ~Complete(T, j) /\ \E c \in Range(T.columns) : ~isna(c, T.rows[j][c])

Labelled ==
    /\ op = "define_hit_songs"
    /\ arg # None
    /\ "popularity" \in Range(T.columns)

\* C4: after define_hit_songs with threshold k, every row has is_hit = 1 if
\* its popularity is greater than k and is_hit = 0 otherwise; popularity
\* equal to k gives 0.
C4_StrictThreshold ==
    Labelled =>
        /\ raised = ""
        /\ \A i \in Positions(R) :
               LET p == R.rows[i]["popularity"]
               IN  R.rows[i]["is_hit"] = IF ~isna("popularity", p) /\ p > threshold THEN 1 ELSE 0

\* one row at the threshold labelled 0 and one above it labelled 1
C4_Witness ==
    /\ Labelled
    /\ raised = ""
    /\ \E i, j \in Positions(R) :
           /\ R.rows[i]["popularity"] = threshold /\ R.rows[i]["is_hit"] = 0
           /\ R.rows[j]["popularity"] > threshold /\ R.rows[j]["is_hit"] = 1

\* C5, as stated: clean_data on a table without a track_id column raises
\* the missing-column error and returns no table, whatever the table holds.
C5_MissingTrackIdRaises ==
    (op = "clean_data" /\ arg # None /\ "track_id" \notin Range(T.columns)) =>
        (raised = "KeyError" /\ ret = None)

\* C6: load_spotify_dataset on a path with no file behind it raises
\* nothing, returns None and prints the diagnostic.
C6_NotFoundReturnsNone ==
    (op = "load_spotify_dataset" /\ disk[file_path] = None) =>
        (raised = "" /\ ret = None /\ printed = <<"Error: file was not found">>)

\* load_spotify_dataset was called on the path of no file
C6_Witness ==
    /\ op = "load_spotify_dataset"
    /\ disk[file_path] = None
    /\ ret = None

\* C7: define_hit_songs applied with threshold k to the table an application
\* with the same k left behind changes nothing: same columns, rows, values.
C7_Idempotent ==
    [][(/\ op = "define_hit_songs" /\ raised = "" /\ df # None
        /\ op' = "define_hit_songs" /\ threshold' = threshold)
       => (raised' = "" /\ df' = df /\ ret' = ret)]_vars

\* define_hit_songs was given a labelled table and returned it equal
C7_Witness ==
    /\ Labelled
    /\ raised = ""
    /\ "is_hit" \in Range(T.columns)
    /\ Len(T.rows) = MaxRows
    /\ ret = arg
    /\ \E i \in Positions(R) : R.rows[i]["is_hit"] = 1

\* C8: define_hit_songs returns the table it was given, with the same rows
\* in the same order, every column other than is_hit unchanged, and the
\* columns of the input plus is_hit (in place when present, last when not).
C8_Frame ==
    Labelled =>
        /\ raised = ""
        /\ retIsArg /\ df = ret
        /\ R.index = T.index
        /\ Len(R.rows) = Len(T.rows)
        /\ \A i \in Positions(R) :
               /\ DOMAIN R.rows[i] = Range(T.columns) \cup {"is_hit"}
               /\ \A c \in Range(T.columns) \ {"is_hit"} : R.rows[i][c] = T.rows[i][c]
        /\ R.columns = IF "is_hit" \in Range(T.columns) THEN T.columns
                       ELSE Append(T.columns, "is_hit")

\* define_hit_songs labelled a table whose row labels are not 0 .. n-1
C8_Witness ==
    /\ Labelled
    /\ raised = ""
    /\ Len(T.rows) > 0
    /\ T.index # RangeIndex(Len(T.index))

\* C9: after clean_data on a table with a track_id column, the columns of
\* the result are the columns of the input without 'index', in their order.
C9_OnlyIndexDropped ==
    (op = "clean_data" /\ arg # None /\ "track_id" \in Range(T.columns)) =>
        /\ raised = ""
        /\ R.columns = SelectSeq(T.columns, LAMBDA c : c # "index")
        /\ \A i \in Positions(R) : DOMAIN R.rows[i] = Range(T.columns) \ {"index"}

\* clean_data returned rows of a table that had an 'index' column and is_hit
C9_Witness ==
    /\ Cleaned
    /\ {"index", "is_hit"} \subseteq Range(T.columns)
    /\ Len(R.rows) > 0

\* C10: search_playlist returns the id and name of the first item that is
\* not null, and (None, None) when the response has no such item.
C10_FirstNonNull ==
    op = "search_playlist" =>
        LET items == IF results = None THEN << >> ELSE results[1]
            valid == {i \in DOMAIN items : items[i] # None}
        IN  IF valid = {} THEN found = <<None, None>>
            ELSE found = <<Some(items[Min(valid)][1].id), Some(items[Min(valid)][1].name)>>

\* a null item came before the playlist that was returned
C10_Witness ==
    /\ op = "search_playlist"
    /\ results # None
    /\ Len(results[1]) >= 2
    /\ results[1][1] = None
    /\ found # <<None, None>>

====
